---- MODULE Spec2Model ----
(***************************************************************************)
(* Model of the trader-analytics pipeline:                                 *)
(*   - src/data_sources/binance_ws.py   stream_trades (ingestion loop)     *)
(*   - src/api/main.py                  on_tick, pairs_analytics,          *)
(*                                      create_alert, alert_loop           *)
(*   - src/analytics/pairs.py           resample_ohlcv,                    *)
(*                                      compute_pairs_analytics            *)
(*   - src/storage/sqlite_repo.py       ticks / alert_rules / alert_events *)
(***************************************************************************)
EXTENDS Integers, Sequences, FiniteSets, TLC

VARIABLES
    wsPc,       \* stream_trades: "connecting" | "connected" | "sleeping" | "cancelled"
    backoff,    \* stream_trades: local variable backoff
    fails,      \* consecutive failures since the last established connection
    wsEvent,    \* what the last step of stream_trades was
    wsMsg,      \* the message the last step of stream_trades received (or NoMsg)
    LAST,       \* main.py: LAST, symbol -> last tick
    ticks,      \* sqlite_repo: rows of table ticks, in insertion order
    inRowsA,    \* analytics input: rows read_ticks returned for symbol a
    inRowsB,    \* analytics input: rows read_ticks returned for symbol b
    inTf,       \* analytics input: timeframe
    inWindow,   \* analytics input: window
    pPc,        \* analytics: "start" | "raised" | "resampled" | "computed" | "adf"
    barsA,      \* analytics: what resample_ohlcv answered for symbol a
    barsB,      \* analytics: what resample_ohlcv answered for symbol b
    cpa,        \* analytics: what compute_pairs_analytics answered
    adfOut,     \* analytics: what GET /pairs/adf answered
    alertPc,    \* alert_loop: "cycle" | "sleeping" | "cancelled"
    rules,      \* sqlite_repo: rows of table alert_rules
    events,     \* sqlite_repo: rows of table alert_events
    cycles,     \* number of cycles alert_loop has run
    cycFetched, \* how many rules get_alert_rules returned in the last cycle
    cycRan,     \* per rule reached in the last cycle, what happened
    cycErr,     \* the exception the last cycle's except clause printed, or "none"
    readOut,    \* what the last GET /latest_tick or GET /symbols answered
    btPc,       \* backtest_mean_reversion_zscore: "idle" | "called" | "loop" | "returned"
    btDf,       \* backtest: argument df
    entry_z,    \* backtest: argument entry_z
    exit_z,     \* backtest: argument exit_z
    btD,        \* backtest: local d, the cleaned and sorted rows
    btI,        \* backtest: loop index i (0-based)
    pos,        \* backtest: local pos (0 flat, -1 short, +1 long)
    entry_idx,  \* backtest: local entry_idx
    entry_ts,   \* backtest: local entry_ts
    entry_zv,   \* backtest: local entry_zv
    trades,     \* backtest: local trades
    summary     \* backtest: the summary returned

ingestVars == <<wsPc, backoff, fails, wsEvent, wsMsg, LAST, ticks>>

pairsVars == <<inRowsA, inRowsB, inTf, inWindow, pPc, barsA, barsB, cpa, adfOut>>

alertVars == <<alertPc, rules, events, cycles, cycFetched, cycRan, cycErr>>

cacheVars == <<readOut>>

backtestVars == <<btPc, btDf, entry_z, exit_z, btD, btI, pos, entry_idx, entry_ts, entry_zv,
                  trades, summary>>

vars == <<ingestVars, pairsVars, alertVars, cacheVars, backtestVars>>

(***************************************************************************)
(* Bounds of the model.                                                    *)
(***************************************************************************)
MaxFails == 8       \* consecutive failed connection attempts explored
MaxTicks == 2       \* rows of table ticks explored in the ingestion model
MaxBars == 32       \* longest tick history the analytics are applied to
MaxRules == 2       \* rows of table alert_rules explored
MaxCycles == 2      \* cycles of alert_loop explored
MaxZ == 4           \* rows of the frame a backtest is run on

(***************************************************************************)
(* Small helpers.                                                          *)
(***************************************************************************)
Min(a, b) == IF a <= b THEN a ELSE b
Max(a, b) == IF a >= b THEN a ELSE b

RECURSIVE Pow2(_)
Pow2(k) == IF k <= 0 THEN 1 ELSE 2 * Pow2(k - 1)

\* Python None (a key absent from the message), for a string field and for
\* the integer field E.
Missing == "<missing>"

NoneInt == 0 - 1

(***************************************************************************)
(* binance_ws.py: the feed's messages and their parsing.                   *)
(***************************************************************************)
\* A text frame is either not JSON at all, or a JSON object with the trade
\* fields E, s, p, q (any of which may be absent).  Numbers travel as strings.
BadJson == [json |-> FALSE, E |-> NoneInt, s |-> Missing, p |-> Missing, q |-> Missing]

Trade(E, s, p, q) == [json |-> TRUE, E |-> E, s |-> s, p |-> p, q |-> q]

Messages ==
    { BadJson,
      Trade(5, "BTCUSDT", "7", "3"),
      Trade(6, "ETHUSDT", "9", "0"),
      Trade(5, "BTCUSDT", Missing, "3"),
      Trade(5, "BTCUSDT", "abc", "3"),
      Trade(5, "BTCUSDT", "7", "abc"),
      Trade(5, "BTCUSDT", "7", Missing),
      Trade(5, Missing, "7", "3"),
      Trade(NoneInt, "ETHUSDT", "9", "3"),
      Trade(0, "ETHUSDT", "9", "3"),
      Trade(5, "BTCUSDT", "-1", "3"),
      Trade(5, "BTCUSDT", "0", "-2") }

NoMsg == [json |-> FALSE, E |-> NoneInt, s |-> "-", p |-> "-", q |-> "-"]

\* float(x): the strings Python's float() accepts, with their values.
FloatTable == [x \in {"7", "9", "3", "0", "-1", "-2"} |->
                 CASE x = "7" -> 7 [] x = "9" -> 9 [] x = "3" -> 3
                   [] x = "0" -> 0 [] x = "-1" -> 0 - 1 [] x = "-2" -> 0 - 2]

\* float(None) raises TypeError, float("abc") raises ValueError.
FloatRaises(x) == x \notin DOMAIN FloatTable

\* str.lower()
Lower(s) ==
    CASE s = "BTCUSDT" -> "btcusdt"
      [] s = "ETHUSDT" -> "ethusdt"
      [] OTHER -> s

\* `x or y` of Python: y when x is falsy (None or 0 for E, None or "" for s).
IntOr(x, y) == IF x = NoneInt \/ x = 0 THEN y ELSE x

StrOr(x, y) == IF x = Missing \/ x = "" THEN y ELSE x

\* time.time()*1000 at the moment a message is parsed (relative clock).
NowChoices == {8}

\* iso_now_ms(ms): the UTC ISO-8601 rendering of the instant.
iso_now_ms(ms) == <<"utc-iso", ms>>

\* Lines 23-31: json.loads .. float(q).  TRUE when one of them raises.
ParseRaises(m) == ~m.json \/ FloatRaises(m.p) \/ FloatRaises(m.q)

\* Lines 28-39: the dict handed to on_tick.
ParseTick(m, now) ==
    LET ts == IntOr(m.E, now) IN
    [ts_ms  |-> ts,
     ts_iso |-> iso_now_ms(ts),
     symbol |-> Lower(StrOr(m.s, "")),
     price  |-> FloatTable[m.p],
     size   |-> FloatTable[m.q]]

\* `except Exception` (line 40): every exception raised in the try block is an
\* Exception; asyncio.CancelledError is a BaseException and is not caught.
ExceptionKinds == {"connect_fail", "conn_error", "parse_error", "sink_error"}

CatchesEverything(kind) == TRUE

CatchesNarrow(kind) == kind \in {"connect_fail", "conn_error"}

Catches(kind) == kind \in ExceptionKinds

\* Line 43: backoff = min(backoff * 2, 30)
BackoffCap == 30

NextBackoffNoCap(b) == b * 2

NextBackoff(b) == Min(b * 2, BackoffCap)

(***************************************************************************)
(* stream_trades and on_tick.                                              *)
(***************************************************************************)
\* An exception of kind `kind` leaves the try block: the except clause prints
\* and starts asyncio.sleep(backoff); an exception it does not catch ends the
\* coroutine.
Raise(kind) ==
    /\ wsPc' = IF Catches(kind) THEN "sleeping" ELSE "stopped"
    /\ fails' = fails + 1
    /\ wsEvent' = kind
    /\ UNCHANGED backoff

\* Line 20: websockets.connect succeeds; line 21 resets backoff.
ConnectOk ==
    /\ wsPc = "connecting"
    /\ wsPc' = "connected"
    /\ backoff' = 1
    /\ fails' = 0
    /\ wsEvent' = "connect_ok"
    /\ wsMsg' = NoMsg
    /\ UNCHANGED <<LAST, ticks>>

\* Line 20: websockets.connect raises.
ConnectFail ==
    /\ wsPc = "connecting"
    /\ fails < MaxFails
    /\ Raise("connect_fail")
    /\ wsMsg' = NoMsg
    /\ UNCHANGED <<LAST, ticks>>

\* Line 22: the iteration raises (connection closed with an error, ping timeout).
ConnError ==
    /\ wsPc = "connected"
    /\ Raise("conn_error")
    /\ wsMsg' = NoMsg
    /\ UNCHANGED <<LAST, ticks>>

\* The variant in which the end of the iteration waits like an error does.
ConnEofSleeps ==
    /\ wsPc = "connected"
    /\ wsPc' = "sleeping"
    /\ wsEvent' = "eof"
    /\ wsMsg' = NoMsg
    /\ UNCHANGED <<backoff, fails, LAST, ticks>>

\* Line 22: the iteration ends normally (the feed closed the connection):
\* the while loop connects again, with no sleep.
ConnEof ==
    /\ wsPc = "connected"
    /\ wsPc' = "connecting"
    /\ wsEvent' = "eof"
    /\ wsMsg' = NoMsg
    /\ UNCHANGED <<backoff, fails, LAST, ticks>>

\* main.py line 26: LAST[t["symbol"]] = t, one store of a reference to the
\* tick dict, which nothing mutates afterwards.
CacheWriteEvery(cache, t) == [k \in DOMAIN cache |-> t]

CacheWriteNothing(cache, t) == cache

CacheWrite(cache, t) == [cache EXCEPT ![t.symbol] = t]

\* Lines 22-39 with main.py on_tick (lines 25-27) and insert_tick: one message.
\* storeOk: whether the INSERT of insert_tick succeeds.
RecvMessage(m, now, storeOk) ==
    /\ wsPc = "connected"
    /\ wsMsg' = m
    /\ IF ParseRaises(m)
       THEN /\ Raise("parse_error")
            /\ UNCHANGED <<LAST, ticks>>
       ELSE LET t == ParseTick(m, now) IN
            /\ LAST' = CacheWrite(LAST, t)
            /\ IF storeOk
               THEN /\ Len(ticks) < MaxTicks
                    /\ ticks' = Append(ticks, t)
                    /\ wsEvent' = "tick"
                    /\ UNCHANGED <<wsPc, backoff, fails>>
               ELSE /\ Raise("sink_error")
                    /\ UNCHANGED ticks

\* Lines 42-43: asyncio.sleep(backoff) returns, backoff doubles up to the cap.
SleepDone ==
    /\ wsPc = "sleeping"
    /\ wsPc' = "connecting"
    /\ backoff' = NextBackoff(backoff)
    /\ wsEvent' = "sleep_done"
    /\ wsMsg' = NoMsg
    /\ UNCHANGED <<fails, LAST, ticks>>

\* The task is cancelled while suspended (in connect, in the message wait, in
\* the backoff sleep): CancelledError is not caught by `except Exception`.
Cancel ==
    /\ wsPc \in {"connecting", "connected", "sleeping"}
    /\ wsPc' = IF Catches("cancelled") THEN "sleeping" ELSE "cancelled"
    /\ wsEvent' = "cancel"
    /\ wsMsg' = NoMsg
    /\ UNCHANGED <<backoff, fails, LAST, ticks>>

SymbolKeys == {"btcusdt", "ethusdt", ""}

\* LAST.get(symbol, {}): the entry of a symbol with no tick yet.
NoTick == [ts_ms |-> 0, ts_iso |-> iso_now_ms(0), symbol |-> Missing, price |-> 0, size |-> 0]

\* main.py lines 41-43: GET /latest_tick answers LAST.get(symbol.lower(), {}).
latest_tick(cache, symbol) ==
    IF Lower(symbol) \in DOMAIN cache THEN cache[Lower(symbol)] ELSE NoTick

\* sqlite_repo.py lines 70-73: SELECT DISTINCT symbol FROM ticks.
list_symbols(tbl) == {tbl[i].symbol : i \in 1..Len(tbl)}

\* main.py lines 35-39: GET /symbols answers the symbols seen in the store
\* or in the cache (as a sorted list: the set, here).
symbols(cache, tbl) ==
    list_symbols(tbl) \cup {k \in DOMAIN cache : cache[k] # NoTick}

NoRead == [op |-> "none", key |-> "-", tick |-> NoTick, syms |-> {}]

\* The handlers run in the server's worker threads, between any two steps
\* of stream_trades; each reads LAST in one dict operation and locks nothing.
LatestTickRead(symbol) ==
    /\ readOut' = [op |-> "latest_tick", key |-> Lower(symbol),
                   tick |-> latest_tick(LAST, symbol), syms |-> {}]
    /\ UNCHANGED ingestVars

SymbolsRead ==
    /\ readOut' = [op |-> "symbols", key |-> "-", tick |-> NoTick,
                   syms |-> symbols(LAST, ticks)]
    /\ UNCHANGED ingestVars

\* The symbols GET /latest_tick is asked for.
ReadSymbols == {"BTCUSDT", "ethusdt", "", "xrpusdt"}

IngestStart ==
    /\ wsPc = "connecting"
    /\ backoff = 1
    /\ fails = 0
    /\ wsEvent = "start"
    /\ wsMsg = NoMsg
    /\ LAST = [s \in SymbolKeys |-> NoTick]
    /\ ticks = <<>>

(***************************************************************************)
(* main.py: _ticks_to_df, TF_MAP; pairs.py: resample_ohlcv.                *)
(* Instants are milliseconds on a relative clock whose origin is aligned   *)
(* to a 5-minute boundary.                                                 *)
(***************************************************************************)
\* main.py line 16: the recognised timeframes and their pandas aliases.
TF_MAP == [tf \in {"1s", "1m", "5m"} |->
             CASE tf = "1s" -> "1S" [] tf = "1m" -> "1min" [] tf = "5m" -> "5min"]

\* Width in milliseconds of the interval a pandas alias denotes.
FreqMs(alias) ==
    CASE alias = "1S" -> 1000 [] alias = "1min" -> 60000 [] alias = "5min" -> 300000

\* Start of the interval of width w that holds instant t.
BinStart(t, w) == (t \div w) * w

\* Stable insertion of row r into the dt-sorted sequence s.
RECURSIVE InsertByDt(_, _)
InsertByDt(s, r) ==
    IF Len(s) = 0 \/ s[Len(s)].dt <= r.dt
    THEN Append(s, r)
    ELSE Append(InsertByDt(SubSeq(s, 1, Len(s) - 1), r), s[Len(s)])

\* df.sort_index()
RECURSIVE SortByDt(_)
SortByDt(s) ==
    IF Len(s) = 0 THEN <<>>
    ELSE InsertByDt(SortByDt(SubSeq(s, 1, Len(s) - 1)), s[Len(s)])

\* main.py lines 45-52.  rows: (ts_ms, ts_iso, price, size) as read_ticks
\* returns them.  With no rows the frame has the two columns and a plain
\* (non-datetime) index; otherwise a datetime index, sorted.
_ticks_to_df(rows) ==
    IF Len(rows) = 0
    THEN [dtIndex |-> FALSE, rows |-> <<>>]
    ELSE [dtIndex |-> TRUE,
          rows |-> SortByDt([i \in 1..Len(rows) |->
                     [dt |-> rows[i].ts_ms, price |-> rows[i].price, size |-> rows[i].size]])]

MaxPriceIsFirst(T) == T[1].price

RECURSIVE MaxPrice(_)
MaxPrice(T) ==
    IF Len(T) = 1 THEN T[1].price ELSE Max(T[1].price, MaxPrice(Tail(T)))

RECURSIVE MinPrice(_)
MinPrice(T) ==
    IF Len(T) = 1 THEN T[1].price ELSE Min(T[1].price, MinPrice(Tail(T)))

RECURSIVE SumSize(_)
SumSize(T) == IF Len(T) = 0 THEN 0 ELSE T[1].size + SumSize(Tail(T))

\* One row of concat([ohlc, vol], axis=1) for the interval starting at b:
\* ohlc() of an interval with no tick is NaN, sum() of it is 0.
OhlcvRow(rows, b, w) ==
    LET T == SelectSeq(rows, LAMBDA r : BinStart(r.dt, w) = b) IN
    IF Len(T) = 0
    THEN [dt |-> b, nan |-> TRUE, open |-> 0, high |-> 0, low |-> 0, close |-> 0, volume |-> 0]
    ELSE [dt |-> b, nan |-> FALSE, open |-> T[1].price, high |-> MaxPrice(T),
          low |-> MinPrice(T), close |-> T[Len(T)].price, volume |-> SumSize(T)]

DropNaKeepsAll(tbl) == tbl

\* DataFrame.dropna(): keeps the rows with no NaN.
DropNa(tbl) == SelectSeq(tbl, LAMBDA r : ~r.nan)

\* pairs.py lines 7-12.  Series.resample raises TypeError unless the index is
\* a DatetimeIndex; otherwise one row per interval from the first tick's to
\* the last tick's, and dropna() removes the intervals with no tick.
resample_ohlcv(df, freq) ==
    IF ~df.dtIndex
    THEN [exc |-> "TypeError", bars |-> <<>>]
    ELSE LET w     == FreqMs(freq)
             first == BinStart(df.rows[1].dt, w)
             last  == BinStart(df.rows[Len(df.rows)].dt, w)
             nb    == ((last - first) \div w) + 1
         IN  [exc |-> "none",
              bars |-> DropNa([k \in 1..nb |-> OhlcvRow(df.rows, first + (k - 1) * w, w)])]

(***************************************************************************)
(* pairs.py: compute_beta_ols, compute_pairs_analytics.                    *)
(* Prices of the model are powers of two and logarithms are taken in units *)
(* of ln 2, so that the regression, the spread and the rolling statistics  *)
(* are exact rationals: beta = num/den, the spread is carried multiplied   *)
(* by den (which leaves the z-score unchanged), and a z-score is carried   *)
(* as its sign and its square num/den.                                     *)
(***************************************************************************)
Abs(x) == IF x < 0 THEN 0 - x ELSE x

Sign(x) == IF x > 0 THEN 1 ELSE IF x < 0 THEN 0 - 1 ELSE 0

RECURSIVE Gcd(_, _)
Gcd(a, b) == IF b = 0 THEN a ELSE Gcd(b, a % b)

\* Sum of f[i] for i in lo..hi.
RECURSIVE SumRange(_, _, _)
SumRange(f, lo, hi) == IF lo > hi THEN 0 ELSE f[hi] + SumRange(f, lo, hi - 1)

\* np.log, in units of ln 2.
LogTable == [p \in {1, 2, 4, 8} |->
               CASE p = 1 -> 0 [] p = 2 -> 1 [] p = 4 -> 2 [] p = 8 -> 3]

\* pairs.py line 31: the least number of joined rows.
MinRows == 30

\* pairs.py line 31: rows required beyond the window.
WindowPad == 5

\* The off-by-one variant of the row-count test.
NotEnoughRowsLe(n, window) == n <= Max(MinRows, window + WindowPad)

\* The variant of the row-count test without the floor of 30 rows.
NotEnoughRowsWindowOnly(n, window) == n < window + WindowPad

\* pairs.py line 31: len(df) < max(30, window + 5)
NotEnoughRows(n, window) == n < Max(MinRows, window + WindowPad)

\* pairs.py lines 24-29: the frame built from the two close (and volume)
\* series is aligned on the union of their indexes and dropna() keeps the
\* instants present in both.
JoinBars(bars_a, bars_b) ==
    LET dtsB    == {bars_b[j].dt : j \in 1..Len(bars_b)}
        bOf(dt) == bars_b[CHOOSE j \in 1..Len(bars_b) : bars_b[j].dt = dt]
        keep    == SelectSeq(bars_a, LAMBDA r : r.dt \in dtsB)
    IN  [i \in 1..Len(keep) |->
           [dt |-> keep[i].dt, a |-> keep[i].close, b |-> bOf(keep[i].dt).close,
            vol_a |-> keep[i].volume, vol_b |-> bOf(keep[i].dt).volume]]

\* pairs.py lines 14-20: slope of the least-squares fit of log(a) on
\* [1, log(b)].  add_constant leaves a column that is already a non-zero
\* constant alone, so the fit has a single parameter and params[1] raises
\* IndexError; a column of zeros gets the constant and the minimum-norm
\* solution has slope 0.
compute_beta_ols(df) ==
    LET n   == Len(df)
        la  == [i \in 1..n |-> LogTable[df[i].a]]
        lb  == [i \in 1..n |-> LogTable[df[i].b]]
        Sx  == SumRange(lb, 1, n)
        Sy  == SumRange(la, 1, n)
        Sxx == SumRange([i \in 1..n |-> lb[i] * lb[i]], 1, n)
        Sxy == SumRange([i \in 1..n |-> la[i] * lb[i]], 1, n)
        D   == n * Sxx - Sx * Sx
        N   == n * Sxy - Sx * Sy
    IN  IF D = 0
        THEN [exc |-> IF lb[1] # 0 THEN "IndexError" ELSE "none", num |-> 0, den |-> 1]
        ELSE LET g == Gcd(Abs(N), D) IN [exc |-> "none", num |-> N \div g, den |-> D \div g]

\* A z-score that is NaN.
NaNZ == [nan |-> TRUE, sgn |-> 0, num |-> 0, den |-> 1]

\* The variant that divides by a zero std into an infinite, non-NaN value.
ZScoreAtInfinite(sp, t, window) ==
    IF window < 1 \/ t < window THEN NaNZ
    ELSE LET S1 == SumRange(sp, t - window + 1, t)
             S2 == SumRange([i \in 1..Len(sp) |-> sp[i] * sp[i]], t - window + 1, t)
             v  == window * S2 - S1 * S1
             d  == window * sp[t] - S1
         IN  IF v = 0 THEN [nan |-> FALSE, sgn |-> 1, num |-> 1, den |-> 0]
             ELSE LET g == Gcd(d * d, v) IN
                  [nan |-> FALSE, sgn |-> Sign(d), num |-> (d * d) \div g, den |-> v \div g]

\* pairs.py lines 38-40 at row t: (spread - rolling mean) / rolling std, with
\* ddof = 0.  The first window-1 rows have no rolling value; where the std is
\* 0 the spread equals the mean and the quotient is 0/0.
ZScoreAt(sp, t, window) ==
    IF window < 1 \/ t < window THEN NaNZ
    ELSE LET S1 == SumRange(sp, t - window + 1, t)
             S2 == SumRange([i \in 1..Len(sp) |-> sp[i] * sp[i]], t - window + 1, t)
             v  == window * S2 - S1 * S1
             d  == window * sp[t] - S1
         IN  IF v = 0 THEN NaNZ
             ELSE LET g == Gcd(d * d, v) IN
                  [nan |-> FALSE, sgn |-> Sign(d), num |-> (d * d) \div g, den |-> v \div g]

\* window * sum of squares - square of the sum of f over the window ending
\* at t: zero exactly when f is constant on the window.
WinVar(f, t, window) ==
    window * SumRange([i \in DOMAIN f |-> f[i] * f[i]], t - window + 1, t)
      - SumRange(f, t - window + 1, t) * SumRange(f, t - window + 1, t)

\* pairs.py lines 42-44 at row t: whether the rolling correlation of the log
\* returns is NaN.  The return of row 1 is NaN; with a window of 1 the
\* sample variance (ddof = 1) is NaN; a return constant over the window
\* gives 0/0.
CorrIsNaN(la, lb, t, window) ==
    LET ra == [i \in 2..Len(la) |-> la[i] - la[i - 1]]
        rb == [i \in 2..Len(lb) |-> lb[i] - lb[i - 1]]
    IN  \/ window < 2
        \/ t - window + 1 < 2
        \/ WinVar(ra, t, window) = 0
        \/ WinVar(rb, t, window) = 0

\* What compute_pairs_analytics answers: exc is the exception it raises (or
\* "none"), stage the statement it reached ("precondition": the return of
\* line 32; "ols": compute_beta_ols; "rolling": the rolling() calls;
\* "latest": out.iloc[-1]; "done": the return of line 56), error whether
\* stats is {"error": ...}, joined the value of len(df), out the final table.
CpaResult(exc, stage, error, joined, beta, out) ==
    [exc |-> exc, stage |-> stage, error |-> error, joined |-> joined,
     beta |-> beta, out |-> out, n |-> Len(out),
     latest_zscore |-> IF Len(out) = 0 THEN NaNZ ELSE out[Len(out)].zscore]

NoBeta == [num |-> 0, den |-> 1]

\* compute_pairs_analytics was not called.
NoCpa == CpaResult("not-run", "not-run", FALSE, 0, NoBeta, <<>>)

\* pairs.py lines 48-56: out.iloc[-1] raises IndexError on an empty table.
LatestOf(joined, beta, out) ==
    IF Len(out) = 0
    THEN CpaResult("IndexError", "latest", FALSE, joined, beta, out)
    ELSE CpaResult("none", "done", FALSE, joined, beta, out)

\* pairs.py lines 34-46: spread, rolling z-score and rolling correlation
\* joined to df, a row being NaN where one of them is.
FinalTable(df, fit, window) ==
    LET n  == Len(df)
        la == [i \in 1..n |-> LogTable[df[i].a]]
        lb == [i \in 1..n |-> LogTable[df[i].b]]
        sp == [i \in 1..n |-> fit.den * la[i] - fit.num * lb[i]]
    IN  [t \in 1..n |->
           [dt |-> df[t].dt, spread |-> sp[t], zscore |-> ZScoreAt(sp, t, window),
            nan |-> ZScoreAt(sp, t, window).nan \/ CorrIsNaN(la, lb, t, window)]]

\* pairs.py lines 35-56, given what compute_beta_ols (line 34) answered.
\* rolling() raises ValueError for a negative window.
CpaWithFit(df, window, fit) ==
    IF fit.exc # "none"
    THEN CpaResult(fit.exc, "ols", FALSE, Len(df), NoBeta, <<>>)
    ELSE IF window < 0
    THEN CpaResult("ValueError", "rolling", FALSE, Len(df), [num |-> fit.num, den |-> fit.den], <<>>)
    ELSE LatestOf(Len(df), [num |-> fit.num, den |-> fit.den], DropNa(FinalTable(df, fit, window)))

\* pairs.py lines 31-56, for the joined frame df.
CpaOnFrame(df, window) ==
    IF NotEnoughRows(Len(df), window)
    THEN CpaResult("none", "precondition", TRUE, Len(df), NoBeta, <<>>)
    ELSE CpaWithFit(df, window, compute_beta_ols(df))

\* pairs.py lines 22-56.
compute_pairs_analytics(bars_a, bars_b, window) ==
    CpaOnFrame(JoinBars(bars_a, bars_b), window)

(***************************************************************************)
(* pairs.py adf_test_on_spread; main.py pairs_adf.                         *)
(***************************************************************************)
\* pairs.py line 59: adfuller(x, autolag="AIC") with the default regression
\* "c" bounds the lag by len(x) // 2 - 2 and raises ValueError ("sample size
\* is too short to use selected regression component") when that is
\* negative, that is for fewer than 4 observations.
AdfMinObs == 4

AdfResult(kind, exc) == [kind |-> kind, exc |-> exc]

\* GET /pairs/adf was not called.
NoAdf == AdfResult("not-run", "none")

\* pairs.py lines 58-66.  spread: the column of the final table (no NaN
\* is left in it, so dropna() keeps every value).
adf_test_on_spread(spread) ==
    IF Len(spread) < AdfMinObs
    THEN AdfResult("raised", "ValueError")
    ELSE AdfResult("stats", "none")

\* main.py lines 89-95, given what pairs_analytics answered: its exception
\* is the handler's; an empty table gives {"error": "not enough data"}.
pairs_adf(res) ==
    IF res.exc # "none" THEN AdfResult("raised", res.exc)
    ELSE IF res.cpa.error \/ Len(res.cpa.out) = 0 THEN AdfResult("error", "none")
    ELSE adf_test_on_spread([i \in 1..Len(res.cpa.out) |-> res.cpa.out[i].spread])

(***************************************************************************)
(* Tick histories the analytics are applied to.                            *)
(***************************************************************************)
\* Price of the i-th tick (i = 0, 1, ...) of a history of the given shape.
PatPrice(pat, i) ==
    CASE pat = "flat" -> 2
      [] pat = "ones" -> 1
      [] pat = "alt"  -> IF i % 2 = 0 THEN 1 ELSE 2
      [] pat = "saw"  -> IF i % 4 < 2 THEN 1 ELSE 2
      [] pat = "step" -> IF i % 3 = 0 THEN 4 ELSE 1
      [] pat = "late" -> IF i < MinRows - 2 THEN 1 ELSE 2

\* n rows of table ticks for one symbol, as read_ticks returns them: one
\* tick every stepMs from offMs on.
GenRows(n, pat, stepMs, offMs) ==
    [i \in 1..n |->
       [ts_ms |-> offMs + (i - 1) * stepMs, ts_iso |-> iso_now_ms(offMs + (i - 1) * stepMs),
        price |-> PatPrice(pat, i - 1), size |-> 1 + (i % 2)]]

(***************************************************************************)
(* sqlite_repo.py read_ticks; main.py pairs_analytics.                     *)
(***************************************************************************)
\* Stable insertion of row r into the ts_ms-sorted sequence s.
RECURSIVE InsertByTs(_, _)
InsertByTs(s, r) ==
    IF Len(s) = 0 \/ s[Len(s)].ts_ms <= r.ts_ms
    THEN Append(s, r)
    ELSE Append(InsertByTs(SubSeq(s, 1, Len(s) - 1), r), s[Len(s)])

\* ORDER BY ts_ms ASC
RECURSIVE OrderByTs(_)
OrderByTs(s) ==
    IF Len(s) = 0 THEN <<>>
    ELSE InsertByTs(OrderByTs(SubSeq(s, 1, Len(s) - 1)), s[Len(s)])

\* sqlite_repo.py lines 62-68: SELECT ts_ms, ts_iso, price, size FROM ticks
\* WHERE symbol=? AND ts_ms>=? ORDER BY ts_ms ASC, over table tbl.
read_ticks(tbl, symbol, since_ms) ==
    LET hit == SelectSeq(tbl, LAMBDA t : t.symbol = symbol /\ t.ts_ms >= since_ms) IN
    OrderByTs([i \in 1..Len(hit) |->
                 [ts_ms |-> hit[i].ts_ms, ts_iso |-> hit[i].ts_iso,
                  price |-> hit[i].price, size |-> hit[i].size]])

\* time.time()*1000 when a request or a cycle runs (relative clock).
NowMs == 7200000

\* What pairs_analytics answers: exc is the exception that leaves it (or
\* "none"), cpa what compute_pairs_analytics returned (stats and table).
PaResult(exc, r) == [exc |-> exc, cpa |-> r]

\* main.py lines 81-83: an exception of compute_pairs_analytics is the
\* handler's.
PaOfCpa(r) == PaResult(r.exc, r)

\* main.py lines 80-83, given both bar tables.
PaFromBars(ba, bb, window) ==
    IF bb.exc # "none" THEN PaResult(bb.exc, NoCpa)
    ELSE PaOfCpa(compute_pairs_analytics(ba.bars, bb.bars, window))

\* main.py lines 79-83, given a's bar table and b's frame.
PaFromBarsA(ba, dfb, tfp, window) ==
    IF ba.exc # "none" THEN PaResult(ba.exc, NoCpa)
    ELSE PaFromBars(ba, resample_ohlcv(dfb, tfp), window)

\* main.py lines 66-83.  readOk: whether the SELECTs of read_ticks succeed.
pairs_analytics(tbl, a, b, tf, window, lookback_sec, readOk) ==
    IF tf \notin DOMAIN TF_MAP THEN PaResult("KeyError", NoCpa)
    ELSE IF ~readOk THEN PaResult("StoreError", NoCpa)
    ELSE PaFromBarsA(
           resample_ohlcv(_ticks_to_df(read_ticks(tbl, Lower(a), NowMs - lookback_sec * 1000)),
                          TF_MAP[tf]),
           _ticks_to_df(read_ticks(tbl, Lower(b), NowMs - lookback_sec * 1000)),
           TF_MAP[tf], window)

(***************************************************************************)
(* main.py: create_alert, alert_loop; sqlite_repo.py: upsert_alert_rule,   *)
(* get_alert_rules, log_alert_event.                                       *)
(***************************************************************************)
\* A threshold is a rational num/den with den > 0.
Rat(n, d) == [num |-> n, den |-> d]

\* The variant of the alert condition that compares with >=.
TriggersGe(z, thr) ==
    /\ ~z.nan
    /\ IF thr.num >= 0
       THEN z.sgn > 0 /\ z.num * thr.den * thr.den >= thr.num * thr.num * z.den
       ELSE z.sgn >= 0 \/ z.num * thr.den * thr.den <= thr.num * thr.num * z.den

\* main.py line 146: float(z) > float(threshold), for z of sign z.sgn and
\* square z.num/z.den.  A comparison with NaN is False.
Triggers(z, thr) ==
    /\ ~z.nan
    /\ IF thr.num >= 0
       THEN z.sgn > 0 /\ z.num * thr.den * thr.den > thr.num * thr.num * z.den
       ELSE z.sgn >= 0 \/ z.num * thr.den * thr.den < thr.num * thr.num * z.den

\* main.py line 141: the lookback alert_loop passes, in seconds.
AlertLookback == 7200

\* What happened to one rule in a cycle (table alert_rules only grows, so the
\* rules a cycle fetched are the first cycFetched rows of rules): kind is "disabled" (line 140),
\* "raised" (an exception left the loop body), "skip" (line 145), "quiet"
\* (the comparison of line 146 was False) or "alert" (log_alert_event
\* returned); stats tells whether pairs_analytics returned statistics with a
\* z-score, z is that z-score.
RanEntry(id, kind, exc, stats, z) ==
    [id |-> id, kind |-> kind, exc |-> exc, stats |-> stats, z |-> z]

NoFault == "none"

\* The store calls that raise during a cycle (the database being locked or
\* unavailable): none, get_alert_rules, the SELECTs of read_ticks, or the
\* INSERT of log_alert_event.
Faults == {NoFault, "rules", "read", "log"}

\* main.py lines 142-148 for rule r, given what
\* pairs_analytics answered.  stats.get("latest_zscore") is None for the
\* {"error": ...} stats.
EvalResult(r, fault, res) ==
    IF res.exc # "none" THEN RanEntry(r.id, "raised", res.exc, FALSE, NaNZ)
    ELSE IF res.cpa.error THEN RanEntry(r.id, "skip", "none", FALSE, NaNZ)
    ELSE IF ~Triggers(res.cpa.latest_zscore, r.threshold)
    THEN RanEntry(r.id, "quiet", "none", TRUE, res.cpa.latest_zscore)
    ELSE IF fault = "log"
    THEN RanEntry(r.id, "raised", "StoreError", TRUE, res.cpa.latest_zscore)
    ELSE RanEntry(r.id, "alert", "none", TRUE, res.cpa.latest_zscore)

\* main.py lines 138-148 for rule r.
EvalRule(tbl, r, fault) ==
    IF ~r.enabled THEN RanEntry(r.id, "disabled", "none", FALSE, NaNZ)
    ELSE EvalResult(r, fault,
                    pairs_analytics(tbl, r.a, r.b, r.tf, r.window, AlertLookback,
                                    fault # "read"))

\* main.py lines 137-148: the for loop over rs from rule i on; the first
\* exception leaves the loop (the try block encloses the whole loop).
RECURSIVE RunRules(_, _, _, _)
RECURSIVE RunRulesAfter(_, _, _, _, _)
RunRulesAfter(tbl, rs, i, fault, e) ==
    IF e.kind = "raised" THEN <<e>>
    ELSE <<e>> \o RunRules(tbl, rs, i + 1, fault)

RunRules(tbl, rs, i, fault) ==
    IF i > Len(rs) THEN <<>>
    ELSE RunRulesAfter(tbl, rs, i, fault, EvalRule(tbl, rs[i], fault))

\* sqlite_repo.py lines 89-92, for the rules of a cycle that alerted:
\* one row of alert_events each (message: name, z to 3 decimals, threshold).
NewEvents(rs, ran) ==
    LET hit == SelectSeq([i \in 1..Len(ran) |-> [e |-> ran[i], r |-> rs[i]]],
                         LAMBDA x : x.e.kind = "alert")
    IN  [i \in 1..Len(hit) |->
           [rule_id |-> hit[i].r.id, ts_ms |-> NowMs,
            message |-> [name |-> hit[i].r.name, zscore |-> <<"%.3f", hit[i].e.z>>,
                         threshold |-> hit[i].r.threshold]]]

\* main.py line 149: `except Exception` catches what the store and the
\* analytics raise; asyncio.CancelledError is a BaseException.
AlertExceptionKinds == {"KeyError", "TypeError", "IndexError", "ValueError", "StoreError"}

AlertCatchesStoreOnly(exc) == exc = "StoreError"

AlertCatches(exc) == exc \in AlertExceptionKinds

\* main.py lines 149-151: where the loop is after the try statement.
AfterCycle(exc) ==
    IF exc = "none" \/ AlertCatches(exc) THEN "sleeping" ELSE "stopped"

\* main.py lines 137-150: the cycle's effects, ran being what the for loop did.
CycleEffects(ran) ==
    /\ cycFetched' = Len(rules)
    /\ cycRan' = ran
    /\ cycErr' = IF Len(ran) > 0 /\ ran[Len(ran)].kind = "raised"
                 THEN ran[Len(ran)].exc ELSE "none"
    /\ events' = events \o NewEvents(rules, ran)

\* main.py lines 132-151: one iteration of the while loop up to the sleep.
\* Nothing in it awaits, so it runs as one step.
AlertCycle(fault) ==
    /\ alertPc = "cycle"
    /\ cycles < MaxCycles
    /\ cycles' = cycles + 1
    /\ IF fault = "rules"
       THEN /\ cycFetched' = 0
            /\ cycRan' = <<>>
            /\ cycErr' = "StoreError"
            /\ UNCHANGED events
       ELSE CycleEffects(RunRules(ticks, rules, 1, fault))
    /\ alertPc' = AfterCycle(cycErr')
    /\ UNCHANGED rules

\* main.py line 151: asyncio.sleep(1.0) returns.
AlertWake ==
    /\ alertPc = "sleeping"
    /\ alertPc' = "cycle"
    /\ UNCHANGED <<rules, events, cycles, cycFetched, cycRan, cycErr>>

\* The alert task is cancelled at its await: CancelledError is not an
\* Exception, so it leaves the loop.
AlertCancel ==
    /\ alertPc \in {"cycle", "sleeping"}
    /\ alertPc' = IF AlertCatches("cancelled") THEN "cycle" ELSE "cancelled"
    /\ UNCHANGED <<rules, events, cycles, cycFetched, cycRan, cycErr>>

\* main.py lines 97-100 with upsert_alert_rule: POST /alerts stores the rule
\* as given (the timeframe is not checked), under the next row id.
create_alert(name, a, b, timeframe, window, threshold, enabled) ==
    /\ Len(rules) < MaxRules
    /\ rules' = Append(rules,
                  [id |-> Len(rules) + 1, name |-> name, a |-> Lower(a), b |-> Lower(b),
                   tf |-> timeframe, window |-> window, threshold |-> threshold,
                   enabled |-> enabled])
    /\ UNCHANGED <<alertPc, events, cycles, cycFetched, cycRan, cycErr>>

\* The requests POST /alerts is called with.
RuleRequests ==
    { [a |-> "BTCUSDT", b |-> "ETHUSDT", tf |-> "1m", window |-> 2, threshold |-> Rat(1, 1), enabled |-> TRUE],
      [a |-> "BTCUSDT", b |-> "ETHUSDT", tf |-> "1m", window |-> 2, threshold |-> Rat(0, 1), enabled |-> TRUE],
      [a |-> "BTCUSDT", b |-> "ETHUSDT", tf |-> "1m", window |-> 2, threshold |-> Rat(0, 1), enabled |-> FALSE],
      [a |-> "bnbusdt", b |-> "ethusdt", tf |-> "1m", window |-> 3, threshold |-> Rat(1, 2), enabled |-> TRUE],
      [a |-> "btcusdt", b |-> "ethusdt", tf |-> "5m", window |-> 2, threshold |-> Rat(0 - 1, 1), enabled |-> TRUE],
      [a |-> "btcusdt", b |-> "ethusdt", tf |-> "2m", window |-> 2, threshold |-> Rat(0, 1), enabled |-> TRUE],
      [a |-> "btcusdt", b |-> "xrpusdt", tf |-> "1m", window |-> 2, threshold |-> Rat(0, 1), enabled |-> TRUE],
      [a |-> "btcusdt", b |-> "solusdt", tf |-> "1m", window |-> 2, threshold |-> Rat(0, 1), enabled |-> TRUE] }

\* Rows of table ticks for one symbol: n ticks a minute apart, the last one
\* a minute before NowMs.
SymbolTicks(symbol, n, pat) ==
    LET rows == GenRows(n, pat, 60000, NowMs - n * 60000) IN
    [i \in 1..n |-> [ts_ms |-> rows[i].ts_ms, ts_iso |-> rows[i].ts_iso, symbol |-> symbol,
                     price |-> rows[i].price, size |-> rows[i].size]]

\* Table ticks after some time of ingestion: three symbols with MaxBars
\* ticks each, one with 10, and none for xrpusdt.
FullStore ==
    SymbolTicks("btcusdt", MaxBars, "alt") \o SymbolTicks("ethusdt", MaxBars, "saw")
      \o SymbolTicks("bnbusdt", MaxBars, "step") \o SymbolTicks("solusdt", 10, "alt")

\* Rows of table ticks for one symbol: n ticks step ms apart from start on.
SymbolTicksFrom(symbol, n, pat, step, start) ==
    LET rows == GenRows(n, pat, step, start) IN
    [i \in 1..n |-> [ts_ms |-> rows[i].ts_ms, ts_iso |-> rows[i].ts_iso, symbol |-> symbol,
                     price |-> rows[i].price, size |-> rows[i].size]]

\* Table ticks when the event times of the exchange (binance_ws.py line 28)
\* run ahead of the clock of the server: MaxBars ticks per symbol, five
\* minutes apart, from the start of the lookback of a cycle on.
FutureStore ==
    SymbolTicksFrom("btcusdt", MaxBars, "alt", 300000, NowMs - AlertLookback * 1000)
      \o SymbolTicksFrom("ethusdt", MaxBars, "saw", 300000, NowMs - AlertLookback * 1000)

AlertStart ==
    /\ alertPc = "cycle"
    /\ rules = <<>>
    /\ events = <<>>
    /\ cycles = 0
    /\ cycFetched = 0
    /\ cycRan = <<>>
    /\ cycErr = "none"

(***************************************************************************)
(* The analytics as pure functions: inputs drawn at the start, then        *)
(* resample_ohlcv and compute_pairs_analytics applied in the order of      *)
(* pairs_analytics (main.py lines 76-81).                                  *)
(***************************************************************************)
NotRun == [exc |-> "not-run", bars |-> <<>>]

\* Lengths of the histories: none, one tick, and around MinRows.
Lens == {0, 1} \cup ((MaxBars - 3)..MaxBars)

Windows == {0 - 1, 0, 1, 2, 3, 26, 27}

\* (milliseconds between ticks, timeframe): one tick per interval, several
\* ticks per interval, and intervals with no tick in between.
StepTf == {<<1000, "1s">>, <<2000, "1s">>, <<60000, "1m">>, <<20000, "1m">>,
           <<300000, "5m">>, <<60000, "5m">>}

\* (shape of a, shape of b)
Shapes == {<<"alt", "saw">>, <<"step", "saw">>, <<"flat", "alt">>, <<"alt", "flat">>,
           <<"alt", "ones">>, <<"late", "saw">>}

PairsStart ==
    /\ \E nA \in Lens, nB \in Lens, sh \in Shapes, st \in StepTf, shift \in {0, 1} :
         /\ inRowsA = GenRows(nA, sh[1], st[1], 0)
         /\ inRowsB = GenRows(nB, sh[2], st[1], shift * st[1])
         /\ inTf = st[2]
    /\ inWindow \in Windows
    /\ pPc = "start"
    /\ barsA = NotRun
    /\ barsB = NotRun
    /\ cpa = NoCpa
    /\ adfOut = NoAdf

\* main.py lines 76-80, given a's bar table.
ResampleB(ra) ==
    /\ barsA' = ra
    /\ barsB' = IF ra.exc = "none"
                THEN resample_ohlcv(_ticks_to_df(inRowsB), TF_MAP[inTf])
                ELSE NotRun
    /\ pPc' = IF ra.exc = "none" /\ barsB'.exc = "none" THEN "resampled" ELSE "raised"

\* main.py lines 76-80: both frames are built, then resampled, a first.
Resample ==
    /\ pPc = "start"
    /\ ResampleB(resample_ohlcv(_ticks_to_df(inRowsA), TF_MAP[inTf]))
    /\ UNCHANGED <<inRowsA, inRowsB, inTf, inWindow, cpa, adfOut>>

\* main.py line 81.
Compute ==
    /\ pPc = "resampled"
    /\ cpa' = compute_pairs_analytics(barsA.bars, barsB.bars, inWindow)
    /\ pPc' = "computed"
    /\ UNCHANGED <<inRowsA, inRowsB, inTf, inWindow, barsA, barsB, adfOut>>

\* main.py lines 91-95, after pairs_analytics returned or raised.
Adf ==
    /\ pPc \in {"raised", "computed"}
    /\ adfOut' = pairs_adf(IF pPc = "computed" THEN PaOfCpa(cpa)
                           ELSE PaResult(IF barsA.exc # "none" THEN barsA.exc ELSE barsB.exc,
                                         NoCpa))
    /\ pPc' = "adf"
    /\ UNCHANGED <<inRowsA, inRowsB, inTf, inWindow, barsA, barsB, cpa>>

PairsIdle ==
    /\ inRowsA = <<>>
    /\ inRowsB = <<>>
    /\ inTf = "1m"
    /\ inWindow = 60
    /\ pPc = "start"
    /\ barsA = NotRun
    /\ barsB = NotRun
    /\ cpa = NoCpa
    /\ adfOut = NoAdf

(***************************************************************************)
(* Specifications.                                                         *)
(***************************************************************************)
(***************************************************************************)
(* streamlit_app.py: backtest_mean_reversion_zscore.  z-scores are whole   *)
(* numbers of a common unit; a NaN is carried as a flag.                   *)
(***************************************************************************)
\* A cell of column z_col: a number, or NaN.
ZCell(v) == [nan |-> FALSE, v |-> v]

NaNCell == [nan |-> TRUE, v |-> 0]

\* The argument df: None, a frame without column z_col, or a frame of rows
\* (ts, zscore).
Frame(kind, rows) == [kind |-> kind, rows |-> rows]

\* Line 22: df[[ts_col, z_col]].dropna()
BtDropNa(rows) == SelectSeq(rows, LAMBDA r : ~r.zscore.nan)

RECURSIVE InsertByTsCol(_, _)
InsertByTsCol(s, r) ==
    IF Len(s) = 0 THEN <<r>>
    ELSE IF s[Len(s)].ts <= r.ts THEN Append(s, r)
    ELSE Append(InsertByTsCol(SubSeq(s, 1, Len(s) - 1), r), s[Len(s)])

\* Line 26: d.sort_values(ts_col)
RECURSIVE sort_values(_)
sort_values(s) ==
    IF Len(s) = 0 THEN <<>>
    ELSE InsertByTsCol(sort_values(SubSeq(s, 1, Len(s) - 1)), s[Len(s)])

\* Lines 29-31: entry_idx = entry_ts = entry_zv = None
NoneFloat == 0 - 1000

\* Line 42: zi >= entry_z
EntersShort(zi, ez) == zi >= ez

\* Line 47: zi <= -entry_z
EntersLong(zi, ez) == zi <= 0 - ez

\* Line 53: zi <= exit_z
ExitsShort(zi, xz) == zi <= xz

\* The variant of the exit test of a long position without the negation.
ExitsLongSameSign(zi, xz) == zi >= xz

\* Line 65: zi >= -exit_z
ExitsLong(zi, xz) == zi >= 0 - xz

\* Lines 54-62 and 66-74: the dict appended to trades.
BtTrade(side, ets, xts, ezv, zi, move, held) ==
    [side |-> side, entry_ts |-> ets, exit_ts |-> xts, entry_z |-> ezv, exit_z |-> zi,
     z_move |-> move, bars_held |-> held]

\* Lines 77-89: {"trades": 0} without trades; otherwise the number of trades
\* and the means of win (z_move > 0), bars_held and z_move, each carried as
\* sum over count.
Summarize(T) ==
    IF Len(T) = 0 THEN [trades |-> 0]
    ELSE [trades        |-> Len(T),
          win_rate      |-> Rat(Cardinality({k \in 1..Len(T) : T[k].z_move > 0}), Len(T)),
          avg_bars_held |-> Rat(SumRange([k \in 1..Len(T) |-> T[k].bars_held], 1, Len(T)), Len(T)),
          avg_z_move    |-> Rat(SumRange([k \in 1..Len(T) |-> T[k].z_move], 1, Len(T)), Len(T))]

\* The summary before the function has returned.
NoSummary == [trades |-> NoneInt]

\* Lines 19-36: the early returns, the cleaned and sorted copy d, and the
\* initial locals.
BacktestCall ==
    /\ btPc = "called"
    /\ IF btDf.kind # "frame" \/ Len(btDf.rows) = 0 \/ Len(BtDropNa(btDf.rows)) = 0
       THEN /\ btPc' = "returned"
            /\ summary' = [trades |-> 0]
            /\ UNCHANGED <<btD, btI, pos, entry_idx, entry_ts, entry_zv, trades>>
       ELSE /\ btPc' = "loop"
            /\ btD' = sort_values(BtDropNa(btDf.rows))
            /\ btI' = 0
            /\ pos' = 0
            /\ entry_idx' = NoneInt
            /\ entry_ts' = NoneInt
            /\ entry_zv' = NoneFloat
            /\ trades' = <<>>
            /\ UNCHANGED summary
    /\ UNCHANGED <<btDf, entry_z, exit_z>>

\* Lines 38-75: one iteration of the loop, for i = btI.
BacktestBar ==
    /\ btPc = "loop"
    /\ btI < Len(btD)
    /\ LET zi == btD[btI + 1].zscore.v
           ti == btD[btI + 1].ts
       IN  IF pos = 0
           THEN IF EntersShort(zi, entry_z) \/ EntersLong(zi, entry_z)
                THEN /\ pos' = IF EntersShort(zi, entry_z) THEN 0 - 1 ELSE 1
                     /\ entry_idx' = btI
                     /\ entry_ts' = ti
                     /\ entry_zv' = zi
                     /\ UNCHANGED trades
                ELSE UNCHANGED <<pos, entry_idx, entry_ts, entry_zv, trades>>
           ELSE IF pos = 0 - 1 /\ ExitsShort(zi, exit_z)
                THEN /\ trades' = Append(trades, BtTrade("SHORT", entry_ts, ti, entry_zv, zi,
                                                         entry_zv - zi, btI - entry_idx))
                     /\ pos' = 0
                     /\ UNCHANGED <<entry_idx, entry_ts, entry_zv>>
           ELSE IF pos = 1 /\ ExitsLong(zi, exit_z)
                THEN /\ trades' = Append(trades, BtTrade("LONG", entry_ts, ti, entry_zv, zi,
                                                         zi - entry_zv, btI - entry_idx))
                     /\ pos' = 0
                     /\ UNCHANGED <<entry_idx, entry_ts, entry_zv>>
           ELSE UNCHANGED <<pos, entry_idx, entry_ts, entry_zv, trades>>
    /\ btI' = btI + 1
    /\ UNCHANGED <<btPc, btDf, entry_z, exit_z, btD, summary>>

\* Lines 77-91: the loop is over; the summary of the recorded trades.
BacktestReturn ==
    /\ btPc = "loop"
    /\ btI = Len(btD)
    /\ btPc' = "returned"
    /\ summary' = Summarize(trades)
    /\ UNCHANGED <<btDf, entry_z, exit_z, btD, btI, pos, entry_idx, entry_ts, entry_zv, trades>>

\* The locals of a call that has not started.
BacktestLocals ==
    /\ btD = <<>>
    /\ btI = 0
    /\ pos = 0
    /\ entry_idx = NoneInt
    /\ entry_ts = NoneInt
    /\ entry_zv = NoneFloat
    /\ trades = <<>>
    /\ summary = NoSummary

\* No backtest is run (lines 13-14: the default parameters).
BacktestIdle ==
    /\ btPc = "idle"
    /\ btDf = Frame("none", <<>>)
    /\ entry_z = 2
    /\ exit_z = 0
    /\ BacktestLocals

\* The cells of column z_col.
ZCells == {ZCell(v) : v \in (0 - 2)..2} \cup {NaNCell}

\* The parameters (entry_z, exit_z) a backtest is called with.
BtParams == {<<2, 0>>, <<2, 1>>, <<1, 0 - 2>>, <<0 - 1, 0 - 2>>, <<2, 2>>, <<1, 2>>}

\* The frames a backtest is called with: MaxZ rows one second apart, in
\* ascending or descending order of ts.
BtFrames ==
    { Frame("frame", [k \in 1..MaxZ |->
                        [ts |-> 1000 * (IF asc THEN k ELSE MaxZ + 1 - k), zscore |-> zs[k]]]) :
        zs \in [1..MaxZ -> ZCells], asc \in BOOLEAN }
      \cup {Frame("none", <<>>), Frame("nocol", <<>>), Frame("frame", <<>>)}

BacktestStart ==
    /\ btPc = "called"
    /\ btDf \in BtFrames
    /\ \E q \in BtParams : entry_z = q[1] /\ exit_z = q[2]
    /\ BacktestLocals

IngestInit == IngestStart /\ PairsIdle /\ AlertStart /\ readOut = NoRead /\ BacktestIdle

IngestNext ==
    \/ ConnectOk /\ UNCHANGED <<pairsVars, alertVars, cacheVars, backtestVars>>
    \/ ConnectFail /\ UNCHANGED <<pairsVars, alertVars, cacheVars, backtestVars>>
    \/ ConnError /\ UNCHANGED <<pairsVars, alertVars, cacheVars, backtestVars>>
    \/ ConnEof /\ UNCHANGED <<pairsVars, alertVars, cacheVars, backtestVars>>
    \/ \E m \in Messages, now \in NowChoices, storeOk \in BOOLEAN :
         RecvMessage(m, now, storeOk) /\ UNCHANGED <<pairsVars, alertVars, cacheVars, backtestVars>>
    \/ SleepDone /\ UNCHANGED <<pairsVars, alertVars, cacheVars, backtestVars>>
    \/ Cancel /\ UNCHANGED <<pairsVars, alertVars, cacheVars, backtestVars>>

SpecIngest == IngestInit /\ [][IngestNext]_vars

PairsInit == PairsStart /\ IngestStart /\ AlertStart /\ readOut = NoRead /\ BacktestIdle

PairsNext ==
    \/ Resample /\ UNCHANGED <<ingestVars, alertVars, cacheVars, backtestVars>>
    \/ Compute /\ UNCHANGED <<ingestVars, alertVars, cacheVars, backtestVars>>
    \/ Adf /\ UNCHANGED <<ingestVars, alertVars, cacheVars, backtestVars>>

SpecPairs == PairsInit /\ [][PairsNext]_vars

\* The alert loop over a tick store that ingestion has filled, or left empty.
AlertInit ==
    /\ AlertStart
    /\ PairsIdle
    /\ wsPc = "connected"
    /\ backoff = 1
    /\ fails = 0
    /\ wsEvent = "connect_ok"
    /\ wsMsg = NoMsg
    /\ LAST = [s \in SymbolKeys |-> NoTick]
    /\ ticks \in {<<>>, FullStore, FutureStore}
    /\ readOut = NoRead
    /\ BacktestIdle

AlertNext ==
    \/ \E fault \in Faults : AlertCycle(fault) /\ UNCHANGED <<ingestVars, pairsVars, cacheVars, backtestVars>>
    \/ AlertWake /\ UNCHANGED <<ingestVars, pairsVars, cacheVars, backtestVars>>
    \/ AlertCancel /\ UNCHANGED <<ingestVars, pairsVars, cacheVars, backtestVars>>
    \/ \E q \in RuleRequests :
         /\ create_alert("rule", q.a, q.b, q.tf, q.window, q.threshold, q.enabled)
         /\ UNCHANGED <<ingestVars, pairsVars, cacheVars, backtestVars>>

SpecAlert == AlertInit /\ [][AlertNext]_vars

\* stream_trades with the two cache readers.
CacheNext ==
    \/ IngestNext
    \/ \E symbol \in ReadSymbols : LatestTickRead(symbol) /\ UNCHANGED <<pairsVars, alertVars, backtestVars>>
    \/ SymbolsRead /\ UNCHANGED <<pairsVars, alertVars, backtestVars>>

SpecCache == IngestInit /\ [][CacheNext]_vars

\* The two background tasks startup creates (main.py lines 30 and 33),
\* interleaved, over an empty table alert_rules.
LoopsNext ==
    \/ IngestNext
    \/ \E fault \in {NoFault, "rules"} :
         AlertCycle(fault) /\ UNCHANGED <<ingestVars, pairsVars, cacheVars, backtestVars>>
    \/ AlertWake /\ UNCHANGED <<ingestVars, pairsVars, cacheVars, backtestVars>>
    \/ AlertCancel /\ UNCHANGED <<ingestVars, pairsVars, cacheVars, backtestVars>>

SpecLoops == IngestInit /\ [][LoopsNext]_vars

\* asyncio.sleep(1.0) returns after one second.
SpecAlertFair ==
    SpecAlert /\ WF_vars(AlertWake /\ UNCHANGED <<ingestVars, pairsVars, cacheVars, backtestVars>>)

\* asyncio.sleep(backoff) returns after backoff seconds.
BacktestInit == BacktestStart /\ IngestStart /\ PairsIdle /\ AlertStart /\ readOut = NoRead

BacktestNext ==
    \/ BacktestCall /\ UNCHANGED <<ingestVars, pairsVars, alertVars, cacheVars>>
    \/ BacktestBar /\ UNCHANGED <<ingestVars, pairsVars, alertVars, cacheVars>>
    \/ BacktestReturn /\ UNCHANGED <<ingestVars, pairsVars, alertVars, cacheVars>>

SpecBacktest == BacktestInit /\ [][BacktestNext]_vars

SpecIngestFair == SpecIngest /\ WF_vars(SleepDone /\ UNCHANGED <<pairsVars, alertVars, cacheVars, backtestVars>>)

(***************************************************************************)
(* Claims about stream_trades.                                             *)
(***************************************************************************)
\* C2: a message that fails to parse is dropped: no tick reaches the sink for
\* it (neither the cache nor the store changes) and the connection stays
\* connected, so that the following messages are still processed.
C2_ParseFailureKeepsConnection ==
    [][(wsPc = "connected" /\ wsEvent' = "parse_error")
         => (wsPc' = "connected" /\ LAST' = LAST /\ ticks' = ticks)]_vars

\* C3: a failure raised by the sink on_tick (insert_tick failing) does not
\* reach the connection loop: the connection stays connected.
C3_SinkFailureIsolated ==
    [][(wsPc = "connected" /\ wsEvent' = "sink_error") => wsPc' = "connected"]_vars

\* C4: backoff never exceeds 30; the wait in progress after the k-th
\* consecutive failure since the last established connection is
\* min(2^(k-1), 30); backoff is 1 whenever a connection is established.
C4_Backoff ==
    /\ backoff >= 1
    /\ backoff <= 30
    /\ (wsPc = "sleeping" => fails >= 1 /\ backoff = Min(Pow2(fails - 1), 30))
    /\ (wsPc = "connected" => backoff = 1)

\* C4 witness: the seventh consecutive failure waits the capped 30 seconds.
C4_Witness == wsPc = "sleeping" /\ fails = 7 /\ backoff = 30

\* C10: the loop never returns, and after every error (of whatever kind, after
\* any number of consecutive errors) it eventually attempts a connection
\* again, unless it is cancelled.
C10_AlwaysRetries ==
    /\ [](wsPc \in {"connecting", "connected", "sleeping", "cancelled"})
    /\ ((wsEvent \in {"connect_fail", "conn_error", "parse_error", "sink_error"})
          ~> (wsPc = "connecting" \/ wsPc = "cancelled"))

\* C10 witness: a connection attempt that follows seven consecutive errors.
C10_Witness == wsPc = "connecting" /\ wsEvent = "sleep_done" /\ fails >= 7


(***************************************************************************)
(* Claims about alert_loop.                                                *)
(***************************************************************************)
\* C1: an exception raised while evaluating one rule does not abort the
\* cycle: every enabled rule that get_alert_rules returned is evaluated in
\* that cycle, wherever it stands relative to the failing rule.
C1_EveryEnabledRuleEvaluated ==
    \A i \in 1..cycFetched : rules[i].enabled => i <= Len(cycRan)

C6_InsufficientDataSkipped ==
    \A i \in 1..Len(cycRan) :
        LET count(sym) == Cardinality({j \in 1..Len(ticks) : ticks[j].symbol = sym})
        IN  ( /\ rules[i].enabled
              /\ rules[i].tf \in {"1s", "1m", "5m"}
              /\ (count(rules[i].a) < 30 \/ count(rules[i].b) < 30)
              /\ cycRan[i].exc # "StoreError" )
            => /\ cycRan[i].kind = "skip"
               /\ cycErr = "none"
               /\ i < cycFetched => Len(cycRan) > i

(***************************************************************************)
(* Claims about resample_ohlcv and compute_pairs_analytics.                *)
(***************************************************************************)
\* C7: resampling the frame built from no ticks returns an empty bar
\* sequence and raises nothing, for every timeframe.
C7_EmptyTicksGiveEmptyBars ==
    (pPc # "start" /\ Len(inRowsA) = 0) => (barsA.exc = "none" /\ Len(barsA.bars) = 0)

\* C8: compute_pairs_analytics returns the "not enough data" result, and
\* computes no beta and no table, exactly when the two bar series have fewer
\* than max(30, window + 5) instants in common.
C8_Precondition ==
    pPc = "computed" =>
        LET common == {barsA.bars[i].dt : i \in 1..Len(barsA.bars)}
                        \cap {barsB.bars[i].dt : i \in 1..Len(barsB.bars)}
            need   == IF inWindow + 5 > 30 THEN inWindow + 5 ELSE 30
        IN  IF Cardinality(common) < need
            THEN /\ cpa.exc = "none"
                 /\ cpa.error
                 /\ cpa.stage = "precondition"
                 /\ cpa.beta = NoBeta
                 /\ Len(cpa.out) = 0
            ELSE /\ ~cpa.error
                 /\ cpa.stage # "precondition"

\* 30 joined rows with window 26: window + 5 = 31 decides, and the input is
\* rejected.
C8_Witness ==
    /\ pPc = "computed"
    /\ cpa.joined = 30
    /\ inWindow = 26
    /\ cpa.error
    /\ cpa.stage = "precondition"

\* C9: when the precondition passed and the final table is empty,
\* compute_pairs_analytics returns the insufficient-data result and raises
\* nothing.
C9_EmptyTableIsAResult ==
    (pPc = "computed" /\ cpa.stage \in {"latest", "done"} /\ cpa.n = 0)
        => (cpa.exc = "none" /\ cpa.error)


(***************************************************************************)
(* Claims about the loops' lifetime and the last-tick cache.               *)
(***************************************************************************)
\* C11: whatever a cycle of alert_loop did (it completed, found no rules, or
\* the store or a rule evaluation raised), the loop goes to its sleep, and
\* from the sleep it starts another cycle unless it is cancelled; this also
\* with an empty tick store.
C11_AlertLoopNeverStops ==
    /\ [](alertPc \in {"cycle", "sleeping", "cancelled"})
    /\ [][cycles' # cycles => alertPc' = "sleeping"]_vars
    /\ (alertPc = "sleeping") ~> (alertPc = "cycle" \/ alertPc = "cancelled")

\* C11 witness: with no tick ever ingested, a cycle raised from a rule
\* evaluation and the loop is back at the start of a cycle.
C11_Witness ==
    /\ alertPc = "cycle"
    /\ cycles >= 1
    /\ cycErr \in {"KeyError", "TypeError"}
    /\ Len(ticks) = 0

\* C12: the cache changes only by one entry being replaced by one complete
\* tick of that symbol (the tick of the message just received, whether or
\* not the store accepted it); a read changes nothing of the ingestion and
\* answers the empty value or the whole tick that is the entry of the
\* symbol asked for.
C12_LastWriterWins ==
    [][ /\ LAST' # LAST =>
             /\ wsPc = "connected"
             /\ \E now \in NowChoices :
                  /\ ~ParseRaises(wsMsg')
                  /\ LAST'[ParseTick(wsMsg', now).symbol] = ParseTick(wsMsg', now)
                  /\ \A k \in DOMAIN LAST :
                       k # ParseTick(wsMsg', now).symbol => LAST'[k] = LAST[k]
        /\ (wsPc = "connected" /\ wsEvent' \in {"tick", "sink_error"} /\ wsPc' # wsPc) =>
             \E now \in NowChoices :
                LAST'[ParseTick(wsMsg', now).symbol] = ParseTick(wsMsg', now)
        /\ readOut' # readOut =>
             /\ UNCHANGED ingestVars
             /\ readOut'.op = "latest_tick" =>
                  \/ readOut'.tick = NoTick /\ \A k \in DOMAIN LAST :
                                                  k = readOut'.key => LAST[k] = NoTick
                  \/ /\ readOut'.key \in DOMAIN LAST
                     /\ readOut'.tick = LAST[readOut'.key]
                     /\ readOut'.tick.symbol = readOut'.key
                     /\ \E m \in Messages, now \in NowChoices :
                          ~ParseRaises(m) /\ readOut'.tick = ParseTick(m, now)
      ]_vars

\* C12 witness: a read answered a tick of btcusdt, and a later write has
\* replaced that entry by another tick while the other entries are as before.
C12_Witness ==
    /\ readOut.op = "latest_tick"
    /\ readOut.key = "btcusdt"
    /\ readOut.tick # NoTick
    /\ LAST["btcusdt"] # readOut.tick
    /\ LAST["ethusdt"] # NoTick


\* C13: a cancellation delivered to either loop at a suspension point ends
\* that loop (it is not handled as an error followed by a retry), the loop
\* stays ended, and the store is as it was: no tick and no alert event is
\* written by the cancellation or after it.
C13_CancellationEndsLoops ==
    [][ /\ (wsEvent' = "cancel" /\ wsEvent # "cancel") =>
             /\ wsPc \in {"connecting", "connected", "sleeping"}
             /\ wsPc' = "cancelled"
             /\ ticks' = ticks
        /\ wsPc = "cancelled" => (wsPc' = "cancelled" /\ ticks' = ticks /\ LAST' = LAST)
        /\ alertPc = "cancelled" => (alertPc' = "cancelled" /\ events' = events)
        /\ (alertPc' = "cancelled" /\ alertPc # "cancelled") =>
             (alertPc \in {"cycle", "sleeping"} /\ events' = events)
        /\ (alertPc \in {"cycle", "sleeping"} /\ cycles' = cycles /\ alertPc' # alertPc
              /\ alertPc' # "cancelled") => (alertPc = "sleeping" /\ alertPc' = "cycle")
      ]_vars

\* C13 witness: both loops ended by cancellation, the ingestion loop out of
\* its backoff sleep and the alert loop after a cycle, with a tick stored.
C13_Witness ==
    /\ wsPc = "cancelled"
    /\ alertPc = "cancelled"
    /\ fails >= 1
    /\ cycles >= 1
    /\ Len(ticks) >= 1


(***************************************************************************)
(* Claims about the bars.                                                  *)
(***************************************************************************)
\* Width in milliseconds of a timeframe.
TfWidth(tf) == CASE tf = "1s" -> 1000 [] tf = "1m" -> 60000 [] tf = "5m" -> 300000

\* bars are strictly ascending by interval start, every start is a multiple
\* of w, and the starts are exactly those of the intervals that hold a tick
\* of rows.
BarsMatchTicks(bars, rows, w) ==
    /\ \A i \in 1..(Len(bars) - 1) : bars[i].dt < bars[i + 1].dt
    /\ \A i \in 1..Len(bars) :
         /\ bars[i].dt % w = 0
         /\ \E j \in 1..Len(rows) :
              bars[i].dt <= rows[j].ts_ms /\ rows[j].ts_ms < bars[i].dt + w
    /\ \A j \in 1..Len(rows) :
         \E i \in 1..Len(bars) :
            bars[i].dt <= rows[j].ts_ms /\ rows[j].ts_ms < bars[i].dt + w

\* C14: the bars resample_ohlcv returns for a time-ordered tick sequence are
\* strictly ascending by interval start with no start twice, every start is
\* a multiple of the timeframe's width, and an interval has a bar exactly
\* when a tick falls in it.
C14_BarsSortedOnePerInterval ==
    /\ (pPc # "start" /\ barsA.exc = "none") =>
          BarsMatchTicks(barsA.bars, inRowsA, TfWidth(inTf))
    /\ (pPc # "start" /\ barsB.exc = "none") =>
          BarsMatchTicks(barsB.bars, inRowsB, TfWidth(inTf))

\* C14 witness: 1-second bars of ticks two seconds apart: every second
\* interval holds no tick and has no bar.
C14_Witness ==
    /\ pPc # "start"
    /\ barsA.exc = "none"
    /\ inTf = "1s"
    /\ Len(barsA.bars) >= 29
    /\ \A i \in 1..(Len(barsA.bars) - 1) : barsA.bars[i + 1].dt - barsA.bars[i].dt = 2000

\* Sum of the sizes of the rows whose index is in S.
RECURSIVE SizeOver(_, _)
SizeOver(rows, S) ==
    IF S = {} THEN 0
    ELSE LET j == CHOOSE j \in S : TRUE IN rows[j].size + SizeOver(rows, S \ {j})

\* Each bar's open, close, high, low and volume are those of the ticks of
\* rows in its interval, and the volumes add up to the sizes of all ticks.
BarsSummarizeTicks(bars, rows, w) ==
    /\ \A i \in 1..Len(bars) :
         LET In == {j \in 1..Len(rows) :
                      bars[i].dt <= rows[j].ts_ms /\ rows[j].ts_ms < bars[i].dt + w}
             first == CHOOSE j \in In : \A k \in In : rows[j].ts_ms <= rows[k].ts_ms
             last  == CHOOSE j \in In : \A k \in In : rows[k].ts_ms <= rows[j].ts_ms
         IN  /\ bars[i].open = rows[first].price
             /\ bars[i].close = rows[last].price
             /\ \E j \in In : bars[i].high = rows[j].price
             /\ \A j \in In : rows[j].price <= bars[i].high
             /\ \E j \in In : bars[i].low = rows[j].price
             /\ \A j \in In : bars[i].low <= rows[j].price
             /\ bars[i].volume = SizeOver(rows, In)
             /\ bars[i].low <= bars[i].open /\ bars[i].open <= bars[i].high
             /\ bars[i].low <= bars[i].close /\ bars[i].close <= bars[i].high
    /\ SizeOver([i \in 1..Len(bars) |-> [size |-> bars[i].volume]], 1..Len(bars))
         = SizeOver(rows, 1..Len(rows))

\* C15: for every interval that holds a tick, the bar has the first tick's
\* price as open, the last tick's as close, the greatest and the least
\* price as high and low, and the sum of exactly its ticks' sizes as volume.
C15_BarValues ==
    /\ (pPc # "start" /\ barsA.exc = "none") =>
          BarsSummarizeTicks(barsA.bars, inRowsA, TfWidth(inTf))
    /\ (pPc # "start" /\ barsB.exc = "none") =>
          BarsSummarizeTicks(barsB.bars, inRowsB, TfWidth(inTf))

\* C15 witness: 1-minute bars of three ticks each, 20 seconds apart, whose
\* open, high, low and close are not all one price.
C15_Witness ==
    /\ pPc # "start"
    /\ barsA.exc = "none"
    /\ inTf = "1m"
    /\ Len(inRowsA) >= 3 * Len(barsA.bars) - 2
    /\ Len(barsA.bars) >= 10
    /\ \E i \in 1..Len(barsA.bars) :
         /\ barsA.bars[i].low < barsA.bars[i].high
         /\ barsA.bars[i].open # barsA.bars[i].close
         /\ barsA.bars[i].volume >= 4


(***************************************************************************)
(* Claims about the ticks passed to the sink.                              *)
(***************************************************************************)
\* C16: every tick passed to the sink comes from a message that carries a
\* symbol and an event time, and has a non-empty lowercase symbol, that
\* event time, a price > 0 and a size >= 0.
C16_TicksNormalized ==
    wsEvent \in {"tick", "sink_error"} =>
        LET t == LAST[Lower(StrOr(wsMsg.s, ""))] IN
        /\ wsMsg.s # Missing
        /\ wsMsg.E # NoneInt
        /\ t.symbol \in {"btcusdt", "ethusdt"}
        /\ t.ts_ms = wsMsg.E
        /\ t.price > 0
        /\ t.size >= 0


(***************************************************************************)
(* Claims about the ADF test and the z-score.                              *)
(***************************************************************************)
\* C17: for a final table shorter than the ADF lag selection needs,
\* GET /pairs/adf answers with the insufficient-data result and raises
\* nothing.
C17_ShortTableIsAResult ==
    (pPc = "adf" /\ cpa.stage = "done" /\ cpa.n < 4)
        => (adfOut.kind = "error" /\ adfOut.exc = "none")

C20_CacheWrittenBeforeStore ==
    [][ /\ ticks' # ticks =>
             /\ wsPc = "connected" /\ wsEvent' = "tick"
             /\ \E now \in NowChoices :
                  /\ ~ParseRaises(wsMsg')
                  /\ ticks' = Append(ticks, ParseTick(wsMsg', now))
                  /\ LAST'[ParseTick(wsMsg', now).symbol] = ParseTick(wsMsg', now)
        /\ (wsPc = "connected" /\ wsEvent' = "sink_error") =>
             /\ ticks' = ticks
             /\ \E now \in NowChoices :
                  /\ ~ParseRaises(wsMsg')
                  /\ LAST'[ParseTick(wsMsg', now).symbol] = ParseTick(wsMsg', now)
        /\ \A k \in DOMAIN LAST :
             LAST'[k] # LAST[k] =>
                /\ wsPc = "connected" /\ wsEvent' \in {"tick", "sink_error"}
                /\ LAST'[k].symbol = k
                /\ \E now \in NowChoices : LAST'[k] = ParseTick(wsMsg', now)
      ]_vars

\* C20 witness: after a failed store append the cache holds, for one symbol,
\* a tick that is no row of the store, and for another a tick that is.
C20_Witness ==
    /\ wsEvent = "sink_error"
    /\ \E k, j \in DOMAIN LAST :
         /\ k # j
         /\ LAST[k] # NoTick /\ LAST[k] = ParseTick(wsMsg, LAST[k].ts_ms)
         /\ \A i \in 1..Len(ticks) : ticks[i] # LAST[k]
         /\ LAST[j] # NoTick
         /\ \E i \in 1..Len(ticks) : ticks[i] = LAST[j]

\* C21: when the message iteration finishes normally the loop is at once at
\* the next connection attempt, with backoff still 1 and no failure counted;
\* the loop enters the backoff wait only from an exception, and backoff
\* changes only when a wait ends or a connection is made.
C21_EofReconnectsAtOnce ==
    [][ /\ (wsPc = "connected" /\ wsEvent' = "eof") =>
             /\ wsPc' = "connecting"
             /\ backoff = 1 /\ backoff' = 1
             /\ fails' = fails
             /\ LAST' = LAST /\ ticks' = ticks
        /\ (wsPc # "sleeping" /\ wsPc' = "sleeping") =>
             wsEvent' \in {"connect_fail", "conn_error", "parse_error", "sink_error"}
        /\ backoff' # backoff =>
             \/ wsPc = "sleeping" /\ wsPc' = "connecting"
             \/ wsPc = "connecting" /\ wsPc' = "connected" /\ backoff' = 1
      ]_vars

\* C21 witness: the feed ended a connection that had delivered ticks, and
\* the loop is connecting again with backoff 1.
C21_Witness ==
    /\ wsPc = "connecting"
    /\ wsEvent = "eof"
    /\ backoff = 1
    /\ fails = 0
    /\ Len(ticks) >= 1

(***************************************************************************)
(* Claims about backtest_mean_reversion_zscore.                            *)
(***************************************************************************)
\* C22: in backtest_mean_reversion_zscore a position is opened only when
\* flat and closed only on a later bar (bars_held >= 1), trades do not
\* overlap, a position still open when the series ends is not recorded, and
\* with exit_z < entry_z every recorded trade has z_move > 0, so that the
\* win_rate of a summary with at least one trade is exactly 1.
C22_EveryTradeWins ==
    /\ [](/\ \A k \in 1..Len(trades) :
               /\ trades[k].bars_held >= 1
               /\ trades[k].exit_ts > trades[k].entry_ts
               /\ k > 1 => trades[k].entry_ts > trades[k - 1].exit_ts
               /\ exit_z < entry_z => trades[k].z_move > 0
          /\ pos # 0 => \A k \in 1..Len(trades) : trades[k].exit_ts < entry_ts
          /\ (btPc = "returned" /\ summary.trades >= 1) =>
               /\ summary.trades = Len(trades)
               /\ exit_z < entry_z =>
                    /\ summary.win_rate.num = summary.win_rate.den
                    /\ summary.avg_z_move.num > 0
          /\ (btPc = "returned" /\ summary.trades = 0) => Len(trades) = 0)
    /\ [][ /\ (pos' # 0 /\ (pos' # pos \/ entry_idx' # entry_idx)) =>
                pos = 0 /\ entry_idx' = btI /\ trades' = trades
           /\ trades' # trades =>
                \/ btPc = "called" /\ trades' = <<>>
                \/ /\ pos # 0 /\ pos' = 0
                   /\ Len(trades') = Len(trades) + 1
                   /\ SubSeq(trades', 1, Len(trades)) = trades
                   /\ trades'[Len(trades')].bars_held = btI - entry_idx
                   /\ btI > entry_idx
           /\ (btPc = "loop" /\ btPc' = "returned") => trades' = trades /\ pos' = pos
         ]_vars

\* C22 witness: a call with exit_z < entry_z has returned with a recorded
\* trade, a win_rate of 1 and a position that was still open at the end of
\* the series.
C22_Witness ==
    /\ btPc = "returned"
    /\ exit_z < entry_z
    /\ Len(trades) >= 1
    /\ summary.trades = Len(trades)
    /\ summary.win_rate = Rat(Len(trades), Len(trades))
    /\ pos # 0
    /\ entry_ts > trades[Len(trades)].exit_ts

====
